---- MODULE Spec2Model ----
(***************************************************************************)
(* Model of the consistent-hash ring of winstontang86/consistenthash.      *)
(*                                                                         *)
(* Two variants of the ring live in the repository and both are modelled:  *)
(*   variant 1  src/consistenthash.go   (nodes map[string]bool)            *)
(*   variant 2  src/unnamed/part_001    (nodeToVnode, doSort, miniReplicas)*)
(* The variable `variant` is fixed by Init and selects the code that every *)
(* operation runs.                                                         *)
(*                                                                         *)
(* The 32-bit position space is scaled to 0..MaxUint32 (Word = MaxUint32+1)*)
(* and the ceiling limitVNodes and defaultReplicas are scaled with it, so  *)
(* that collisions, wraparound and ring-full all happen on small rings.    *)
(* Strings are byte sequences, as the hash function receives them.         *)
(***************************************************************************)
EXTENDS Integers, Sequences, FiniteSets, TLC

VARIABLES variant,      \* 1: src/consistenthash.go, 2: src/unnamed/part_001
          HashFunc,     \* m.HashFunc (NilHash when nil)
          replicas,     \* m.replicas
          vNodes,       \* m.vNodes, the position slice
          vnodeToNode,  \* m.vnodeToNode, position -> node
          nodes,        \* m.nodes (variant 1)
          nodeToVnode,  \* m.nodeToVnode (variant 2), node -> positions
          lastOp,       \* the last public call and what it returned
          pc,           \* per goroutine: position in its call
          call,         \* per goroutine: the call it is executing
          rwmutex       \* m.RWMutex: writer and set of readers

ringVars == <<variant, HashFunc, replicas, vNodes, vnodeToNode, nodes, nodeToVnode>>
vars == <<variant, HashFunc, replicas, vNodes, vnodeToNode, nodes, nodeToVnode,
          lastOp, pc, call, rwmutex>>

----------------------------------------------------------------------------
(* Bounds and scaled program constants *)

MaxUint32 == 15         \* math.MaxUint32, scaled
limitVNodes == 6        \* 0x1 << 30, scaled
defaultReplicas == 3    \* 128, scaled
miniReplicas == 2
prime == 16777619
MaxArgs == 2            \* longest variadic argument list
MaxReplicasArg == 4     \* largest replica count passed to New / ResetAll

Word == MaxUint32 + 1

\* node identifiers "a", "b", "c" as byte strings
Nodes == {<<97>>, <<98>>, <<99>>}

\* keys: every one-byte string below Word, and the string "0a" (a combKey)
Keys == {<<b>> : b \in 0..MaxUint32} \cup {<<48, 97>>}

ErrNone == "nil"
ErrRingEmpty == "ring empty"
ErrRingFull == "ring full"
Panic == "panic: nil func"

----------------------------------------------------------------------------
(* Hash functions: an opaque capability bytes -> uint32.  A hash function  *)
(* is a record of the parameters of a polynomial byte fold; a small mod   *)
(* gives the low-quality functions under which many strings collide.       *)

NilHash == [mul |-> 0, add |-> 0, scale |-> 0, mod |-> 0]

crc32ChecksumIEEE == [mul |-> 7, add |-> 0, scale |-> 1, mod |-> Word]

UserHashFuncs ==
    { [mul |-> 1, add |-> 0, scale |-> 1, mod |-> Word],  \* sum of the bytes
      [mul |-> 1, add |-> 9, scale |-> 10, mod |-> 2],    \* two values: 9 and 3
      [mul |-> 1, add |-> 9, scale |-> 0, mod |-> 1] }    \* constant 9

RECURSIVE Fold(_, _, _)
Fold(data, mul, h) ==
    IF data = << >> THEN h
    ELSE Fold(Tail(data), mul, (h * mul + Head(data)) % Word)

Hash(hf, data) == (hf.add + hf.scale * (Fold(data, hf.mul, 0) % hf.mod)) % Word

----------------------------------------------------------------------------
(* Helpers of the Go runtime and library the code relies on *)

RECURSIVE Itoa(_)
Itoa(n) == IF n < 10 THEN <<48 + n>> ELSE Itoa(n \div 10) \o <<48 + (n % 10)>>

Range(s) == {s[i] : i \in 1..Len(s)}

RECURSIVE Insert(_, _)
Insert(x, s) ==
    IF s = << >> THEN <<x>>
    ELSE IF x <= Head(s) THEN <<x>> \o s
    ELSE <<Head(s)>> \o Insert(x, Tail(s))

RECURSIVE Sort(_)
Sort(s) == IF s = << >> THEN << >> ELSE Insert(Head(s), Sort(Tail(s)))

\* sort.Search(n, f): the binary search of package sort on indices 0..n-1
RECURSIVE SearchLoop(_, _, _, _)
SearchLoop(i, j, s, x) ==
    IF i < j
    THEN LET h == (i + j) \div 2
         IN  IF ~(s[h + 1] >= x) THEN SearchLoop(h + 1, j, s, x)
             ELSE SearchLoop(i, h, s, x)
    ELSE i

Search(s, x) == SearchLoop(0, Len(s), s, x)

\* the orders in which a range over a Go map may visit a set of keys
RECURSIVE Perms(_)
Perms(S) ==
    IF S = {} THEN {<< >>}
    ELSE UNION { {<<x>> \o p : p \in Perms(S \ {x})} : x \in S }

RECURSIVE Ascending(_)
Ascending(S) ==
    IF S = {} THEN << >>
    ELSE LET x == CHOOSE y \in S : \A z \in S : y <= z
         IN  <<x>> \o Ascending(S \ {x})

Reverse(s) == [i \in 1..Len(s) |-> s[Len(s) + 1 - i]]

\* map iteration over positions: two of the possible orders
IterOrders == {"asc", "desc"}
MapKeys(S, order) == IF order = "asc" THEN Ascending(S) ELSE Reverse(Ascending(S))

EmptyMap == [x \in {} |-> 0]

MapDelete(f, k) == [x \in (DOMAIN f) \ {k} |-> f[x]]
MapPut(f, k, v) == [x \in (DOMAIN f) \cup {k} |-> IF x = k THEN v ELSE f[x]]

----------------------------------------------------------------------------
(* The ring as a value.  `panic` is set when the code calls a nil HashFunc; *)
(* the call stops there and the deferred Unlock runs.                      *)

NoPos == -1

mkRing(hf, r, vn, v2n, ns, n2v) ==
    [HashFunc |-> hf, replicas |-> r, vNodes |-> vn, vnodeToNode |-> v2n,
     nodes |-> ns, nodeToVnode |-> n2v, panic |-> FALSE]

\* New, variant 1
NewV1(r, hash) ==
    mkRing(IF hash = NilHash THEN crc32ChecksumIEEE ELSE hash,
           IF r = 0 THEN defaultReplicas ELSE r,
           << >>, EmptyMap, {}, EmptyMap)

\* New, variant 2
NewV2(r, hash) ==
    mkRing(IF hash = NilHash THEN crc32ChecksumIEEE ELSE hash,
           IF r < miniReplicas THEN defaultReplicas ELSE r,
           << >>, EmptyMap, {}, EmptyMap)

numHash(key, max) == ((key * prime) % Word) % max

combKey(node, idx) == Itoa(idx) \o node

segmentLen(m) == MaxUint32 \div m.replicas

\* mutant: no collision check, the computed position is always used
vhash32_noRetry(m, node, ui) ==
    LET segLen   == segmentLen(m)
        segStart == (segLen * ui) % Word
    IN  (segStart + numHash(Hash(m.HashFunc, combKey(node, ui)), segLen)) % Word

\* mutant: one rehash only; the replica is dropped after two occupied
\* candidates
vhash32_oneRetry(m, node, ui) ==
    LET segLen   == segmentLen(m)
        segStart == (segLen * ui) % Word
        v0 == (segStart + numHash(Hash(m.HashFunc, combKey(node, ui)), segLen)) % Word
        v1 == (segStart + numHash((v0 + 1) % Word, segLen)) % Word
    IN  IF v0 \notin DOMAIN m.vnodeToNode THEN v0
        ELSE IF v1 \notin DOMAIN m.vnodeToNode THEN v1
        ELSE NoPos

\* mutant: the rehashes range over the whole ring, not over the segment
vhash32_retryAnywhere(m, node, ui) ==
    LET segLen   == segmentLen(m)
        segStart == (segLen * ui) % Word
        v0 == (segStart + numHash(Hash(m.HashFunc, combKey(node, ui)), segLen)) % Word
        v1 == numHash((v0 + 1) % Word, MaxUint32)
        v2 == numHash((v1 + 1) % Word, MaxUint32)
    IN  IF v0 \notin DOMAIN m.vnodeToNode THEN v0
        ELSE IF v1 \notin DOMAIN m.vnodeToNode THEN v1
        ELSE IF v2 \notin DOMAIN m.vnodeToNode THEN v2
        ELSE NoPos

\* the position add inserts for replica ui of node, or NoPos when the
\* computed position and both rehashes are occupied
vhash32(m, node, ui) ==
    LET segLen   == segmentLen(m)
        segStart == (segLen * ui) % Word
        v0 == (segStart + numHash(Hash(m.HashFunc, combKey(node, ui)), segLen)) % Word
        v1 == (segStart + numHash((v0 + 1) % Word, segLen)) % Word
        v2 == (segStart + numHash((v1 + 1) % Word, segLen)) % Word
    IN  IF v0 \notin DOMAIN m.vnodeToNode THEN v0
        ELSE IF v1 \notin DOMAIN m.vnodeToNode THEN v1
        ELSE IF v2 \notin DOMAIN m.vnodeToNode THEN v2
        ELSE NoPos

\* variant 1: the replica loop of add for one node, from index ui
RECURSIVE addVNodesV1(_, _, _)
addVNodesV1(m, node, ui) ==
    IF ~(ui < m.replicas) THEN m
    ELSE IF m.HashFunc = NilHash THEN [m EXCEPT !.panic = TRUE]
    ELSE LET p == vhash32(m, node, ui)
         IN  IF p = NoPos THEN addVNodesV1(m, node, ui + 1)
             ELSE addVNodesV1([m EXCEPT !.vnodeToNode = MapPut(@, p, node),
                                        !.vNodes = Append(@, p)],
                              node, ui + 1)

\* mutant: a node that is already registered is inserted again
RECURSIVE addLoopV1_noDupCheck(_, _)
addLoopV1_noDupCheck(m, list) ==
    IF list = << >> \/ m.panic THEN m
    ELSE LET m2 == addVNodesV1(m, Head(list), 0)
         IN  IF m2.panic THEN m2
             ELSE addLoopV1_noDupCheck([m2 EXCEPT !.nodes = @ \cup {Head(list)}],
                                       Tail(list))

\* variant 1: the node loop of add
RECURSIVE addLoopV1(_, _)
addLoopV1(m, list) ==
    IF list = << >> \/ m.panic THEN m
    ELSE LET node == Head(list)
         IN  IF node \in m.nodes THEN addLoopV1(m, Tail(list))
             ELSE LET m2 == addVNodesV1(m, node, 0)
                  IN  IF m2.panic THEN m2
                      ELSE addLoopV1([m2 EXCEPT !.nodes = @ \cup {node}], Tail(list))

\* variant 1: add
addV1(m, list) ==
    LET m2 == addLoopV1(m, list)
    IN  IF m2.panic THEN m2 ELSE [m2 EXCEPT !.vNodes = Sort(@)]

\* mutant: the inserted position is not appended to the node's list
RECURSIVE addVNodesV2_noIndex(_, _, _)
addVNodesV2_noIndex(m, node, ui) ==
    IF ~(ui < m.replicas) THEN m
    ELSE IF m.HashFunc = NilHash THEN [m EXCEPT !.panic = TRUE]
    ELSE LET p == vhash32(m, node, ui)
         IN  IF p = NoPos THEN addVNodesV2_noIndex(m, node, ui + 1)
             ELSE addVNodesV2_noIndex([m EXCEPT !.vnodeToNode = MapPut(@, p, node),
                                                !.vNodes = Append(@, p),
                                                !.nodeToVnode[node] =
                                                    IF ui = 0 THEN @ ELSE Append(@, p)],
                                      node, ui + 1)

\* variant 2: the replica loop of add for one node, from index ui
RECURSIVE addVNodesV2(_, _, _)
addVNodesV2(m, node, ui) ==
    IF ~(ui < m.replicas) THEN m
    ELSE IF m.HashFunc = NilHash THEN [m EXCEPT !.panic = TRUE]
    ELSE LET p == vhash32(m, node, ui)
         IN  IF p = NoPos THEN addVNodesV2(m, node, ui + 1)
             ELSE addVNodesV2([m EXCEPT !.vnodeToNode = MapPut(@, p, node),
                                        !.vNodes = Append(@, p),
                                        !.nodeToVnode[node] = Append(@, p)],
                              node, ui + 1)

\* mutant: a node that is already registered is inserted again
RECURSIVE addLoopV2_noDupCheck(_, _)
addLoopV2_noDupCheck(m, list) ==
    IF list = << >> \/ m.panic THEN m
    ELSE addLoopV2_noDupCheck(
            addVNodesV2([m EXCEPT !.nodeToVnode = MapPut(@, Head(list), << >>)],
                        Head(list), 0),
            Tail(list))

\* variant 2: the node loop of add
RECURSIVE addLoopV2(_, _)
addLoopV2(m, list) ==
    IF list = << >> \/ m.panic THEN m
    ELSE LET node == Head(list)
         IN  IF node \in DOMAIN m.nodeToVnode THEN addLoopV2(m, Tail(list))
             ELSE addLoopV2(addVNodesV2([m EXCEPT !.nodeToVnode = MapPut(@, node, << >>)],
                                        node, 0),
                            Tail(list))

\* variant 2: add
addV2(m, doSort, list) ==
    IF Len(list) = 0 THEN m
    ELSE LET m2 == addLoopV2(m, list)
         IN  IF m2.panic \/ ~doSort THEN m2 ELSE [m2 EXCEPT !.vNodes = Sort(@)]

\* mutant: the position slice is not rebuilt
rebuildVNodeSliceV1_stale(m, order) == m

\* variant 1: rebuildVNodeSlice; order is the map's iteration order
rebuildVNodeSliceV1(m, order) ==
    [m EXCEPT !.vNodes = Sort(MapKeys(DOMAIN m.vnodeToNode, order))]

\* variant 2: rebuildVNodeSlice
rebuildVNodeSliceV2(m, doSort, order) ==
    LET s == MapKeys(DOMAIN m.vnodeToNode, order)
    IN  [m EXCEPT !.vNodes = IF doSort THEN Sort(s) ELSE s]

\* mutant: the node is unregistered but its positions stay on the ring
removeLoopV1_keepVNodes(m, list) ==
    [m EXCEPT !.nodes = @ \ Range(list)]

\* variant 1: the node loop of remove
RECURSIVE removeLoopV1(_, _)
removeLoopV1(m, list) ==
    IF list = << >> THEN m
    ELSE LET node == Head(list)
         IN  IF node \notin m.nodes THEN removeLoopV1(m, Tail(list))
             ELSE removeLoopV1(
                    [m EXCEPT !.vnodeToNode =
                                 [k \in {x \in DOMAIN @ : @[x] # node} |-> @[k]],
                              !.nodes = @ \ {node}],
                    Tail(list))

\* variant 1: remove
removeV1(m, list, order) == rebuildVNodeSliceV1(removeLoopV1(m, list), order)

\* mutant: the positions are found by hashing again (first choices only)
\* instead of being read from nodeToVnode
RECURSIVE removeLoopV2_rehash(_, _)
removeLoopV2_rehash(m, list) ==
    IF list = << >> THEN m
    ELSE LET node == Head(list)
             empty == [m EXCEPT !.vnodeToNode = EmptyMap]
             first == {vhash32(empty, node, ui) : ui \in 0..(m.replicas - 1)}
         IN  IF node \notin DOMAIN m.nodeToVnode THEN removeLoopV2_rehash(m, Tail(list))
             ELSE removeLoopV2_rehash(
                    [m EXCEPT !.vnodeToNode = [k \in (DOMAIN @) \ first |-> @[k]],
                              !.nodeToVnode = MapDelete(@, node)],
                    Tail(list))

\* mutant: the first position listed for the node stays in the map
RECURSIVE removeLoopV2_keepFirst(_, _)
removeLoopV2_keepFirst(m, list) ==
    IF list = << >> THEN m
    ELSE LET node == Head(list)
         IN  IF node \notin DOMAIN m.nodeToVnode THEN removeLoopV2_keepFirst(m, Tail(list))
             ELSE removeLoopV2_keepFirst(
                    [m EXCEPT !.vnodeToNode =
                                 [k \in (DOMAIN @) \
                                          Range(IF m.nodeToVnode[node] = << >> THEN << >>
                                                ELSE Tail(m.nodeToVnode[node])) |-> @[k]],
                              !.nodeToVnode = MapDelete(@, node)],
                    Tail(list))

\* variant 2: the node loop of remove
RECURSIVE removeLoopV2(_, _)
removeLoopV2(m, list) ==
    IF list = << >> THEN m
    ELSE LET node == Head(list)
         IN  IF node \notin DOMAIN m.nodeToVnode THEN removeLoopV2(m, Tail(list))
             ELSE removeLoopV2(
                    [m EXCEPT !.vnodeToNode =
                                 [k \in (DOMAIN @) \ Range(m.nodeToVnode[node]) |-> @[k]],
                              !.nodeToVnode = MapDelete(@, node)],
                    Tail(list))

\* variant 2: remove
removeV2(m, doSort, list, order) ==
    IF Len(list) = 0 THEN m
    ELSE rebuildVNodeSliceV2(removeLoopV2(m, list), doSort, order)

----------------------------------------------------------------------------
(* The public operations as functions of the ring.  Each returns the ring  *)
(* it leaves behind and the error it returns.                              *)

Returned(m) == [ring |-> [m EXCEPT !.panic = FALSE],
                err  |-> IF m.panic THEN Panic ELSE ErrNone]

Full(m) == [ring |-> m, err |-> ErrRingFull]

\* mutant: the capacity check runs after the insertion
AddV1_checkAfter(m, list) ==
    LET m2 == addV1(m, list)
    IN  IF (Cardinality(m.nodes) + Len(list)) * m.replicas > limitVNodes
        THEN Full([m2 EXCEPT !.panic = FALSE])
        ELSE Returned(m2)

\* variant 1: Add
AddV1(m, list) ==
    IF (Cardinality(m.nodes) + Len(list)) * m.replicas > limitVNodes THEN Full(m)
    ELSE Returned(addV1(m, list))

\* variant 2: Add
AddV2(m, list) ==
    IF Cardinality(DOMAIN m.vnodeToNode) + Len(list) * m.replicas > limitVNodes
    THEN Full(m)
    ELSE Returned(addV2(m, TRUE, list))

\* variant 1: Remove(node)
RemoveV1(m, node, order) == Returned(removeV1(m, <<node>>, order))

\* variant 2: Remove(nodes...)
RemoveV2(m, list, order) == Returned(removeV2(m, TRUE, list, order))

\* mutant: Reset rebuilds the ring from an empty one with the default
\* replica count, as ResetAll does
ResetV1_viaClear(m, resetNodes, delNodes, order) ==
    LET m1 == mkRing(m.HashFunc, defaultReplicas, << >>, EmptyMap, {}, EmptyMap)
    IN  IF Len(resetNodes) * m1.replicas > limitVNodes THEN Full(m)
        ELSE Returned(addV1(m1, resetNodes))

\* variant 1: Reset; delNodes is the order in which the range over m.nodes
\* meets the nodes to delete
ResetV1(m, resetNodes, delNodes, order) ==
    IF Len(resetNodes) * m.replicas > limitVNodes THEN Full(m)
    ELSE LET m2 == removeV1(m, delNodes, order)
             absent(n) == n \notin m2.nodes
             addNodes == SelectSeq(resetNodes, absent)
         IN  Returned(addV1(m2, addNodes))

\* mutant: the final sort of Reset is missing
ResetV2_noSort(m, list, delNodes, addNodes, order) ==
    IF Len(list) * m.replicas > limitVNodes THEN Full(m)
    ELSE Returned(addV2(removeV2(m, FALSE, delNodes, order), FALSE, addNodes))

\* variant 2: Reset; delNodes and addNodes are the orders in which the
\* ranges over m.nodeToVnode and over the resetNodes map meet the nodes
ResetV2(m, list, delNodes, addNodes, order) ==
    IF Len(list) * m.replicas > limitVNodes THEN Full(m)
    ELSE LET m2 == removeV2(m, FALSE, delNodes, order)
             m3 == addV2(m2, FALSE, addNodes)
         IN  Returned(IF Len(delNodes) > 0 \/ Len(addNodes) > 0
                      THEN [m3 EXCEPT !.vNodes = Sort(@)]
                      ELSE m3)

\* what Reset's first loop may collect, variant 1
DelNodesV1(m, resetNodes) == Perms(m.nodes \ Range(resetNodes))

\* what Reset's loops may collect, variant 2
DelNodesV2(m, list) == Perms((DOMAIN m.nodeToVnode) \ Range(list))
AddNodesV2(m, list) == Perms(Range(list) \ (DOMAIN m.nodeToVnode))

\* clear (both variants)
clear(m) == mkRing(crc32ChecksumIEEE, defaultReplicas, << >>, EmptyMap, {}, EmptyMap)

\* variant 1: ResetAll
ResetAllV1(m, r, hash, list) ==
    LET m1 == clear(m)
        m2 == IF r > 0 THEN [m1 EXCEPT !.replicas = r] ELSE m1
        m3 == IF m2.HashFunc # NilHash THEN [m2 EXCEPT !.HashFunc = hash] ELSE m2
    IN  IF Len(list) * m3.replicas > limitVNodes THEN Full(m3)
        ELSE Returned(addV1(m3, list))

\* mutant: ResetAll takes every replica count above zero
ResetAllV2_aboveZero(m, r, hash, list) ==
    LET m1 == clear(m)
        m2 == IF r > 0 THEN [m1 EXCEPT !.replicas = r] ELSE m1
        m3 == IF hash # NilHash THEN [m2 EXCEPT !.HashFunc = hash] ELSE m2
    IN  IF Len(list) * m3.replicas > limitVNodes THEN Full(m3)
        ELSE Returned(addV2(m3, TRUE, list))

\* variant 2: ResetAll
ResetAllV2(m, r, hash, list) ==
    LET m1 == clear(m)
        m2 == IF r >= miniReplicas THEN [m1 EXCEPT !.replicas = r] ELSE m1
        m3 == IF hash # NilHash THEN [m2 EXCEPT !.HashFunc = hash] ELSE m2
    IN  IF Len(list) * m3.replicas > limitVNodes THEN Full(m3)
        ELSE Returned(addV2(m3, TRUE, list))

IsEmpty(m) == Cardinality(DOMAIN m.vnodeToNode) = 0

NoNode == << >>

\* mutant: a hash beyond the last position resolves to the last position
Get_wrapLast(m, key) ==
    IF Cardinality(DOMAIN m.vnodeToNode) = 0
    THEN [ret |-> NoNode, err |-> ErrRingEmpty]
    ELSE LET found == Search(m.vNodes, Hash(m.HashFunc, key))
             idx   == IF found = Len(m.vNodes) THEN found - 1 ELSE found
         IN  [ret |-> m.vnodeToNode[m.vNodes[idx + 1]], err |-> ErrNone]

\* Get (both variants)
Get(m, key) ==
    IF Cardinality(DOMAIN m.vnodeToNode) = 0
    THEN [ret |-> NoNode, err |-> ErrRingEmpty]
    ELSE IF m.HashFunc = NilHash THEN [ret |-> NoNode, err |-> Panic]
    ELSE LET u32Hash == Hash(m.HashFunc, key)
             found   == Search(m.vNodes, u32Hash)
             idx     == IF found = Len(m.vNodes) THEN 0 ELSE found
             pos     == m.vNodes[idx + 1]
         IN  [ret |-> IF pos \in DOMAIN m.vnodeToNode THEN m.vnodeToNode[pos] ELSE NoNode,
              err |-> ErrNone]

----------------------------------------------------------------------------
(* The state machine: one goroutine at a time calls a public operation.    *)

Ring == [HashFunc |-> HashFunc, replicas |-> replicas, vNodes |-> vNodes,
         vnodeToNode |-> vnodeToNode, nodes |-> nodes,
         nodeToVnode |-> nodeToVnode, panic |-> FALSE]

SetRing(m) ==
    /\ HashFunc' = m.HashFunc
    /\ replicas' = m.replicas
    /\ vNodes' = m.vNodes
    /\ vnodeToNode' = m.vnodeToNode
    /\ nodes' = m.nodes
    /\ nodeToVnode' = m.nodeToVnode

Procs == {1, 2}

ArgLists == UNION { [1..n -> Nodes] : n \in 0..MaxArgs }

\* the argument lists ResetAll is called with: no identifier repeated
DistinctArgLists == {list \in ArgLists : Cardinality(Range(list)) = Len(list)}

HashArgs == UserHashFuncs \cup {NilHash}

ReplicasArgs == 0..MaxReplicasArg

concVars == <<pc, call, rwmutex>>

NoCall == [op |-> "none"]

Idle ==
    /\ pc = [p \in Procs |-> "idle"]
    /\ call = [p \in Procs |-> NoCall]
    /\ rwmutex = [w |-> 0, r |-> {}]

Done(op, list, res) ==
    /\ SetRing(res.ring)
    /\ lastOp' = [op |-> op, args |-> Range(list), err |-> res.err, ret |-> NoNode,
                  changed |-> res.ring # Ring]
    /\ UNCHANGED <<variant, concVars>>

Init ==
    /\ variant \in {1, 2}
    /\ \E r \in ReplicasArgs, hash \in HashArgs :
          LET m == IF variant = 1 THEN NewV1(r, hash) ELSE NewV2(r, hash)
          IN  /\ HashFunc = m.HashFunc
              /\ replicas = m.replicas
              /\ vNodes = m.vNodes
              /\ vnodeToNode = m.vnodeToNode
              /\ nodes = m.nodes
              /\ nodeToVnode = m.nodeToVnode
    /\ lastOp = [op |-> "New", args |-> {}, err |-> ErrNone, ret |-> NoNode, changed |-> FALSE]
    /\ Idle

AddCall(list) ==
    Done("Add", list, IF variant = 1 THEN AddV1(Ring, list) ELSE AddV2(Ring, list))

Add == \E list \in ArgLists : AddCall(list)

\* variant 1 removes one node per call, variant 2 a list
RemoveCall(list, order) ==
    /\ variant = 1 => Len(list) = 1
    /\ Done("Remove", list,
            IF variant = 1 THEN RemoveV1(Ring, list[1], order)
            ELSE RemoveV2(Ring, list, order))

Remove == \E list \in ArgLists, order \in IterOrders : RemoveCall(list, order)

ResetCall(list, order) ==
    \/ /\ variant = 1
       /\ \E delNodes \in DelNodesV1(Ring, list) :
             Done("Reset", list, ResetV1(Ring, list, delNodes, order))
    \/ /\ variant = 2
       /\ \E delNodes \in DelNodesV2(Ring, list), addNodes \in AddNodesV2(Ring, list) :
             Done("Reset", list, ResetV2(Ring, list, delNodes, addNodes, order))

Reset == \E list \in ArgLists, order \in IterOrders : ResetCall(list, order)

ResetAllCall(r, hash, list) ==
    Done("ResetAll", list,
         IF variant = 1 THEN ResetAllV1(Ring, r, hash, list)
         ELSE ResetAllV2(Ring, r, hash, list))

ResetAll ==
    \E r \in ReplicasArgs, hash \in HashArgs, list \in DistinctArgLists :
        ResetAllCall(r, hash, list)

\* mutant: Get rebuilds the position slice from the map, unsorted, after
\* it has found the node
GetKey_rebuilds ==
    \E key \in Keys :
        LET g == Get(Ring, key)
        IN  /\ lastOp' = [op |-> "Get", args |-> {}, err |-> g.err, ret |-> g.ret,
                          changed |-> FALSE]
            /\ vNodes' = MapKeys(DOMAIN vnodeToNode, "desc")
            /\ UNCHANGED <<variant, HashFunc, replicas, vnodeToNode, nodes,
                           nodeToVnode, concVars>>

GetKey ==
    \E key \in Keys :
        LET g == Get(Ring, key)
        IN  /\ lastOp' = [op |-> "Get", args |-> {}, err |-> g.err, ret |-> g.ret, changed |-> FALSE]
            /\ UNCHANGED <<ringVars, concVars>>

IsEmptyCall ==
    /\ lastOp' = [op |-> "IsEmpty", args |-> {}, err |-> ErrNone,
                  ret |-> IF IsEmpty(Ring) THEN <<1>> ELSE <<0>>, changed |-> FALSE]
    /\ UNCHANGED <<ringVars, concVars>>

Next == Add \/ Remove \/ Reset \/ ResetAll \/ GetKey \/ IsEmptyCall

Spec == Init /\ [][Next]_vars

TypeOK ==
    /\ variant \in {1, 2}
    /\ replicas \in 1..MaxReplicasArg
    /\ Range(vNodes) \subseteq 0..MaxUint32
    /\ DOMAIN vnodeToNode \subseteq 0..MaxUint32

----------------------------------------------------------------------------
(* The goroutine-level state machine: every public method is a sequence of *)
(* steps between taking and releasing m.RWMutex, so that the states a      *)
(* mutator passes through (positions appended but not sorted, nodes        *)
(* removed but not yet added) are states of the model.                     *)

ConcLists == {<< >>, <<<<97>>>>, <<<<98>>>>}

ConcKeys == {<<0>>, <<MaxUint32>>}

ConcConfigs == {<<0, NilHash>>, <<miniReplicas, crc32ChecksumIEEE>>}

Mutators == {"Add", "Remove", "Reset", "ResetAll"}
Readers == {"Get", "IsEmpty"}

\* the steps a mutator runs between Lock and Unlock
PhasesOf(v, op, list) ==
    IF v = 1
    THEN CASE op = "Add"      -> <<"check", "add", "sort">>
           [] op = "Remove"   -> <<"remove", "sort">>
           [] op = "Reset"    -> <<"check", "remove", "sort", "add", "sort">>
           [] op = "ResetAll" -> <<"clear", "check", "add", "sort">>
    ELSE CASE op = "Add"      -> IF Len(list) = 0 THEN <<"check">>
                                 ELSE <<"check", "add", "sort">>
           [] op = "Remove"   -> IF Len(list) = 0 THEN << >> ELSE <<"remove", "sort">>
           [] op = "Reset"    -> <<"check", "remove", "add", "sort">>
           [] op = "ResetAll" -> IF Len(list) = 0 THEN <<"clear", "check">>
                                 ELSE <<"clear", "check", "add", "sort">>

NewCall(op, list, r, hash, key) ==
    [op |-> op, list |-> list, r |-> r, hash |-> hash, key |-> key,
     todo |-> IF op \in Mutators THEN PhasesOf(variant, op, list) ELSE << >>,
     del |-> << >>, add |-> list, err |-> ErrNone, ret |-> NoNode]

InitConc ==
    /\ variant \in {1, 2}
    /\ \E c \in ConcConfigs :
          LET m == IF variant = 1 THEN NewV1(c[1], c[2]) ELSE NewV2(c[1], c[2])
          IN  /\ HashFunc = m.HashFunc
              /\ replicas = m.replicas
              /\ vNodes = m.vNodes
              /\ vnodeToNode = m.vnodeToNode
              /\ nodes = m.nodes
              /\ nodeToVnode = m.nodeToVnode
    /\ lastOp = [op |-> "New", args |-> {}, err |-> ErrNone, ret |-> NoNode,
                 changed |-> FALSE]
    /\ Idle

\* a goroutine calls a public method
Call(p) ==
    /\ pc[p] = "idle"
    /\ \E op \in Mutators \cup Readers, list \in ConcLists, c \in ConcConfigs,
          key \in ConcKeys :
          /\ op # "ResetAll" => c = <<0, NilHash>>
          /\ op \in Readers => list = << >>
          /\ op # "Get" => key = <<0>>
          /\ (variant = 1 /\ op = "Remove") => Len(list) = 1
          /\ call' = [call EXCEPT ![p] = NewCall(op, list, c[1], c[2], key)]
          /\ pc' = [pc EXCEPT ![p] = IF op \in Mutators THEN "lock" ELSE "rlock"]
    /\ UNCHANGED <<ringVars, lastOp, rwmutex>>

\* m.Lock() returns when no goroutine holds the lock
CanLock == rwmutex.w = 0 /\ rwmutex.r = {}

\* an RLock that does not wait for the writer
CanRLock_noWait == TRUE

\* m.RLock() returns when no writer holds the lock
CanRLock == rwmutex.w = 0

Lock(p) ==
    /\ pc[p] = "lock"
    /\ CanLock
    /\ rwmutex' = [rwmutex EXCEPT !.w = p]
    /\ pc' = [pc EXCEPT ![p] = "body"]
    /\ UNCHANGED <<ringVars, lastOp, call>>

InBody(p, phase) ==
    pc[p] = "body" /\ call[p].todo # << >> /\ Head(call[p].todo) = phase

\* the capacity test of the running method
IsFull(c) ==
    IF c.op = "Add"
    THEN IF variant = 1
         THEN (Cardinality(nodes) + Len(c.list)) * replicas > limitVNodes
         ELSE Cardinality(DOMAIN vnodeToNode) + Len(c.list) * replicas > limitVNodes
    ELSE Len(c.list) * replicas > limitVNodes

\* the capacity test; Reset goes on to collect delNodes
CheckStep(p) ==
    /\ InBody(p, "check")
    /\ IF IsFull(call[p])
       THEN call' = [call EXCEPT ![p].todo = << >>, ![p].err = ErrRingFull]
       ELSE \E delNodes \in (IF call[p].op # "Reset" THEN {<< >>}
                             ELSE IF variant = 1 THEN DelNodesV1(Ring, call[p].list)
                             ELSE DelNodesV2(Ring, call[p].list)) :
               call' = [call EXCEPT ![p].todo = Tail(@), ![p].del = delNodes]
    /\ UNCHANGED <<ringVars, lastOp, pc, rwmutex>>

\* ResetAll: clear() and the new configuration
ClearStep(p) ==
    /\ InBody(p, "clear")
    /\ LET c  == call[p]
           m1 == clear(Ring)
           m2 == IF (IF variant = 1 THEN c.r > 0 ELSE c.r >= miniReplicas)
                 THEN [m1 EXCEPT !.replicas = c.r] ELSE m1
           m3 == IF (IF variant = 1 THEN m2.HashFunc # NilHash ELSE c.hash # NilHash)
                 THEN [m2 EXCEPT !.HashFunc = c.hash] ELSE m2
       IN  SetRing(m3)
    /\ call' = [call EXCEPT ![p].todo = Tail(@)]
    /\ UNCHANGED <<variant, lastOp, pc, rwmutex>>

\* remove up to and without the sort; Reset goes on to collect addNodes
RemoveStep(p) ==
    /\ InBody(p, "remove")
    /\ \E order \in IterOrders :
          LET c    == call[p]
              list == IF c.op = "Reset" THEN c.del ELSE c.list
              m2   == IF variant = 1
                      THEN [removeLoopV1(Ring, list) EXCEPT
                              !.vNodes = MapKeys(DOMAIN removeLoopV1(Ring, list).vnodeToNode,
                                                 order)]
                      ELSE removeV2(Ring, FALSE, list, order)
              absent(n) == n \notin m2.nodes
          IN  /\ SetRing(m2)
              /\ \E addNodes \in (IF c.op # "Reset" THEN {c.list}
                                  ELSE IF variant = 1 THEN {SelectSeq(c.list, absent)}
                                  ELSE AddNodesV2(m2, c.list)) :
                    call' = [call EXCEPT ![p].todo = Tail(@), ![p].add = addNodes]
    /\ UNCHANGED <<variant, lastOp, pc, rwmutex>>

\* add up to and without the sort
AddStep(p) ==
    /\ InBody(p, "add")
    /\ LET m2 == IF variant = 1 THEN addLoopV1(Ring, call[p].add)
                 ELSE addV2(Ring, FALSE, call[p].add)
       IN  /\ SetRing(m2)
           /\ call' = IF m2.panic
                      THEN [call EXCEPT ![p].todo = << >>, ![p].err = Panic]
                      ELSE [call EXCEPT ![p].todo = Tail(@)]
    /\ UNCHANGED <<variant, lastOp, pc, rwmutex>>

\* sort.Sort(m.vNodes); Reset of variant 2 sorts if it removed or added
SortStep(p) ==
    /\ InBody(p, "sort")
    /\ vNodes' = IF variant = 2 /\ call[p].op = "Reset"
                    /\ Len(call[p].del) = 0 /\ Len(call[p].add) = 0
                 THEN vNodes
                 ELSE Sort(vNodes)
    /\ call' = [call EXCEPT ![p].todo = Tail(@)]
    /\ UNCHANGED <<variant, HashFunc, replicas, vnodeToNode, nodes, nodeToVnode,
                   lastOp, pc, rwmutex>>

\* mutant: Unlock is not deferred; the early return of the capacity test
\* leaves the lock held
Unlock_noDefer(p) ==
    /\ pc[p] = "body" /\ call[p].todo = << >>
    /\ rwmutex' = IF call[p].err = ErrRingFull THEN rwmutex
                  ELSE [rwmutex EXCEPT !.w = 0]
    /\ lastOp' = [op |-> call[p].op, args |-> {}, err |-> call[p].err,
                  ret |-> NoNode, changed |-> FALSE]
    /\ pc' = [pc EXCEPT ![p] = "idle"]
    /\ call' = [call EXCEPT ![p] = NoCall]
    /\ UNCHANGED ringVars

\* the deferred m.Unlock() and the return
Unlock(p) ==
    /\ pc[p] = "body" /\ call[p].todo = << >>
    /\ rwmutex' = [rwmutex EXCEPT !.w = 0]
    /\ lastOp' = [op |-> call[p].op, args |-> {}, err |-> call[p].err,
                  ret |-> NoNode, changed |-> FALSE]
    /\ pc' = [pc EXCEPT ![p] = "idle"]
    /\ call' = [call EXCEPT ![p] = NoCall]
    /\ UNCHANGED ringVars

RLock(p) ==
    /\ pc[p] = "rlock"
    /\ CanRLock
    /\ rwmutex' = [rwmutex EXCEPT !.r = @ \cup {p}]
    /\ pc' = [pc EXCEPT ![p] = "read"]
    /\ UNCHANGED <<ringVars, lastOp, call>>

\* the body of Get or IsEmpty
ReadStep(p) ==
    /\ pc[p] = "read"
    /\ call' = IF call[p].op = "Get"
               THEN [call EXCEPT ![p].ret = Get(Ring, call[p].key).ret,
                                 ![p].err = Get(Ring, call[p].key).err]
               ELSE [call EXCEPT ![p].ret = IF IsEmpty(Ring) THEN <<1>> ELSE <<0>>]
    /\ pc' = [pc EXCEPT ![p] = "runlock"]
    /\ UNCHANGED <<ringVars, lastOp, rwmutex>>

\* the deferred m.RUnlock() and the return
RUnlock(p) ==
    /\ pc[p] = "runlock"
    /\ rwmutex' = [rwmutex EXCEPT !.r = @ \ {p}]
    /\ lastOp' = [op |-> call[p].op, args |-> {}, err |-> call[p].err,
                  ret |-> call[p].ret, changed |-> FALSE]
    /\ pc' = [pc EXCEPT ![p] = "idle"]
    /\ call' = [call EXCEPT ![p] = NoCall]
    /\ UNCHANGED ringVars

NextConc ==
    \E p \in Procs :
        \/ Call(p) \/ Lock(p) \/ CheckStep(p) \/ ClearStep(p) \/ RemoveStep(p)
        \/ AddStep(p) \/ SortStep(p) \/ Unlock(p)
        \/ RLock(p) \/ ReadStep(p) \/ RUnlock(p)

SpecConc == InitConc /\ [][NextConc]_vars

\* The same goroutines with fewer inputs, for the properties checked under
\* fair scheduling: a ring constructed by New(0, nil), mutators called with
\* one node, Get called with one key.
LiveLists == {<<<<97>>>>, <<<<98>>>>}

InitLive == InitConc /\ replicas = defaultReplicas

LiveCall(p) ==
    /\ Call(p)
    /\ call'[p].op \in Mutators => call'[p].list \in LiveLists
    /\ call'[p].key = <<0>>

NextLive ==
    \E p \in Procs :
        \/ LiveCall(p) \/ Lock(p) \/ CheckStep(p) \/ ClearStep(p) \/ RemoveStep(p)
        \/ AddStep(p) \/ SortStep(p) \/ Unlock(p)
        \/ RLock(p) \/ ReadStep(p) \/ RUnlock(p)

\* Scheduling: a goroutine that can take a step of its call takes it, and a
\* goroutine waiting in m.Lock() or m.RLock() gets the lock when it is free
\* again and again (sync.RWMutex hands the lock to waiters; it does not
\* starve them).  A goroutine need not start a further call.  Weak fairness
\* of AddStep is written out, with InBody(p, "add") for ENABLED AddStep(p).
Fairness ==
    \A p \in Procs :
        /\ WF_vars(CheckStep(p) \/ ClearStep(p) \/ RemoveStep(p)
                       \/ SortStep(p) \/ Unlock(p) \/ ReadStep(p) \/ RUnlock(p))
        /\ []<>(~InBody(p, "add")) \/ []<><<AddStep(p)>>_vars
        /\ SF_vars(Lock(p))
        /\ SF_vars(RLock(p))

FairSpecConc == InitLive /\ [][NextLive]_vars /\ Fairness

----------------------------------------------------------------------------
(* Vocabulary of the properties *)

\* the physical nodes registered in ring m of variant v
RegisteredIn(v, m) == IF v = 1 THEN m.nodes ELSE DOMAIN m.nodeToVnode

Registered == RegisteredIn(variant, Ring)

Positions == DOMAIN vnodeToNode

Min(S) == CHOOSE x \in S : \A y \in S : x <= y
Max(S) == CHOOSE x \in S : \A y \in S : x >= y

Owners == {vnodeToNode[p] : p \in Positions}

\* the position the ring's contract assigns to hash value h
Successor(h) ==
    IF \E p \in Positions : p >= h
    THEN Min({p \in Positions : p >= h})
    ELSE Min(Positions)

----------------------------------------------------------------------------
\* C1: on a ring with at least one position, Get(key) returns the owner of
\* the smallest position >= hash(key), and the owner of the smallest
\* position of all when no position is >= hash(key).
C1_GetReturnsSuccessor ==
    Positions # {} =>
        \A key \in Keys :
            Get(Ring, key) =
                [ret |-> vnodeToNode[Successor(Hash(HashFunc, key))], err |-> ErrNone]

\* a Get has just returned on a ring of two owners where some key wraps
\* around and some key does not
C1_Witness ==
    /\ lastOp.op = "Get" /\ lastOp.err = ErrNone
    /\ Cardinality(Owners) >= 2
    /\ \E key \in Keys :
          /\ Hash(HashFunc, key) > Max(Positions)
          /\ lastOp.ret = vnodeToNode[Min(Positions)]
          /\ lastOp.ret # vnodeToNode[Max(Positions)]
    /\ \E key \in Keys : Hash(HashFunc, key) < Max(Positions)
                         /\ Hash(HashFunc, key) > Min(Positions)

\* C2: the position sequence and the position->node map hold exactly the
\* same positions; the sequence has no duplicates.
C2_SliceMatchesMap ==
    /\ Len(vNodes) = Cardinality(Positions)
    /\ Range(vNodes) = Positions
    /\ \A i, j \in 1..Len(vNodes) : i # j => vNodes[i] # vNodes[j]

\* a mutation has changed a ring on which a replica was moved or dropped
\* by the collision policy (fewer positions than nodes * replicas, or a
\* position that is nobody's first choice)
C2_Witness ==
    /\ lastOp.op \in {"Add", "Reset", "ResetAll"} /\ lastOp.changed
    /\ Cardinality(Registered) >= 2
    /\ \/ Cardinality(Positions) < Cardinality(Registered) * replicas
       \/ \E p \in Positions :
             \A n \in Registered, ui \in 0..(replicas - 1) :
                 vhash32([Ring EXCEPT !.vnodeToNode = EmptyMap], n, ui) # p

\* C3: the position sequence is sorted in strictly ascending order.
C3_Sorted ==
    \A i, j \in 1..Len(vNodes) : i < j => vNodes[i] < vNodes[j]

\* a Reset of variant 2 (sorting skipped inside) has changed the ring and
\* left at least three positions
C3_Witness ==
    /\ variant = 2 /\ lastOp.op = "Reset" /\ lastOp.changed
    /\ Len(vNodes) >= 3

\* a mutator is between its Lock and its Unlock
Mutating(p) == pc[p] = "body"

\* a reader is between its RLock and its RUnlock
Reading(p) == pc[p] \in {"read", "runlock"}

\* C4: with goroutines calling mutators and readers concurrently, no two
\* mutators are between Lock and Unlock together and no reader is inside its
\* read section while a mutator is; the ring a reader sees is therefore a whole
\* one (sorted, slice equal to the keys of the map), and the result a Get has
\* computed is the result on the ring as it stands until the Get returns.
C4_ReadersSeeWholeMutations ==
    /\ \A p, q \in Procs : Mutating(p) /\ Mutating(q) => p = q
    /\ \A p \in Procs :
          Reading(p) =>
             /\ \A q \in Procs : ~Mutating(q)
             /\ C2_SliceMatchesMap
             /\ C3_Sorted
             /\ (pc[p] = "runlock" /\ call[p].op = "Get") =>
                    /\ call[p].ret = Get(Ring, call[p].key).ret
                    /\ call[p].err = Get(Ring, call[p].key).err

\* a Get has computed a node and not yet returned while the other goroutine
\* waits for the lock with a mutator that will change the ring
C4_Witness ==
    \E p, q \in Procs :
        /\ pc[p] = "runlock" /\ call[p].op = "Get" /\ call[p].err = ErrNone
        /\ call[p].ret \in Nodes
        /\ pc[q] = "lock" /\ call[q].op \in {"Remove", "Reset", "ResetAll"}
        /\ call[q].list # <<call[p].ret>>

\* what Get returns for key on the ring before and after the step
GetBefore(key) == Get(Ring, key)
GetAfter(key) == Get(Ring', key)

\* C5: a Get that returns without error returns a registered node; after
\* Remove(n) n is not registered and no Get returns n, and after Reset(S)
\* or ResetAll(.., S) every Get returns a member of S.
C5_GetReturnsRegistered ==
    /\ \A key \in Keys :
          Get(Ring, key).err = ErrNone => Get(Ring, key).ret \in Registered
    /\ lastOp.op = "Remove" =>
          /\ lastOp.args \cap Registered = {}
          /\ \A key \in Keys : Get(Ring, key).ret \notin lastOp.args
    /\ (lastOp.op \in {"Reset", "ResetAll"} /\ lastOp.err = ErrNone) =>
          /\ Registered = lastOp.args
          /\ \A key \in Keys :
                Get(Ring, key).err = ErrNone => Get(Ring, key).ret \in lastOp.args

\* a Remove has taken a node off a ring that still has two owners
C5_Witness ==
    /\ lastOp.op = "Remove" /\ lastOp.changed /\ lastOp.args # {}
    /\ Cardinality(Owners) >= 2

\* C6: Remove(n) leaves every key that was mapped to a node other than n
\* on that node.
C6_RemoveIsLocal ==
    [][ \A n \in Nodes :
           (lastOp'.op = "Remove" /\ lastOp'.args = {n}) =>
               \A key \in Keys :
                   (GetBefore(key).err = ErrNone /\ GetBefore(key).ret # n)
                   => GetAfter(key) = GetBefore(key)
      ]_vars

\* a Remove has changed the ring and two owners are left, one of them on a
\* position that is not its first choice (a collision had moved it)
C6_Witness ==
    /\ lastOp.op = "Remove" /\ lastOp.changed
    /\ Cardinality(Owners) >= 2
    /\ \E p \in Positions :
          \A ui \in 0..(replicas - 1) :
              vhash32([Ring EXCEPT !.vnodeToNode = EmptyMap], vnodeToNode[p], ui) # p

\* C7: after a successful Add on a non-empty ring every key is on the node
\* it was on before or on a node this Add has registered.
C7_AddIsLocal ==
    [][ (lastOp'.op = "Add" /\ lastOp'.err = ErrNone) =>
               \A key \in Keys :
                   GetBefore(key).err = ErrNone =>
                       \/ GetAfter(key) = GetBefore(key)
                       \/ GetAfter(key).ret \in Registered' \ Registered
      ]_vars

\* an Add has registered a further node on a ring: three nodes own
\* positions now
C7_Witness ==
    /\ lastOp.op = "Add" /\ lastOp.changed /\ lastOp.err = ErrNone
    /\ Cardinality(Owners) >= 3

\* a fresh ring with the configuration of the current one
Fresh == IF variant = 1 THEN NewV1(replicas, HashFunc) ELSE NewV2(replicas, HashFunc)

\* the ring after one Add call
AddAll(m, list) == IF variant = 1 THEN AddV1(m, list).ring ELSE AddV2(m, list).ring

\* the ring after one Add call per node of list
RECURSIVE AddEach(_, _)
AddEach(m, list) ==
    IF list = << >> THEN m ELSE AddEach(AddAll(m, <<Head(list)>>), Tail(list))

\* the rings a Reset(list) may leave
ResetTo(m, list) ==
    IF variant = 1
    THEN {ResetV1(m, list, delNodes, "asc").ring : delNodes \in DelNodesV1(m, list)}
    ELSE {ResetV2(m, list, dn[1], dn[2], "asc").ring :
             dn \in DelNodesV2(m, list) \X AddNodesV2(m, list)}

\* the fresh rings whose registered nodes are exactly S, built by one Add,
\* by one Add per node or by Reset, in every order
Builds(S) ==
    {m \in UNION { {AddAll(Fresh, list), AddEach(Fresh, list)} \cup ResetTo(Fresh, list) :
                     list \in Perms(S) } :
        RegisteredIn(variant, m) = S}

\* C8: two rings with the same hash function, replica count and set of
\* nodes (here: the nodes registered now) return the same node for every
\* key, whatever the order in which the nodes were added.
C8_OrderIndependent ==
    HashFunc # NilHash =>
        \A m1, m2 \in Builds(Registered) :
            \A key \in Keys : Get(m1, key) = Get(m2, key)

\* C9: an Add or Reset that returns ring-full leaves the ring as it was.
C9_FullLeavesRing ==
    [][ (lastOp'.op \in {"Add", "Reset"} /\ lastOp'.err = ErrRingFull)
        => UNCHANGED ringVars ]_vars

\* an Add has returned ring-full on a ring that holds positions
C9_Witness ==
    /\ lastOp.op = "Add" /\ lastOp.err = ErrRingFull
    /\ Positions # {}
    /\ lastOp.args \ Registered # {}

\* C10: a ResetAll that returns ring-full leaves the node set, the
\* positions, the replica count and the hash function as they were.
C10_ResetAllFullLeavesRing ==
    [][ (lastOp'.op = "ResetAll" /\ lastOp'.err = ErrRingFull)
        => UNCHANGED ringVars ]_vars

\* the replica count ResetAll is specified to install for the argument r
ReplicasOrDefault(r) ==
    IF (IF variant = 1 THEN r = 0 ELSE r < miniReplicas) THEN defaultReplicas ELSE r

\* C11: a ResetAll called with a nil hash function (and any replica count,
\* valid or not) that is not refused as ring-full returns no error, leaves
\* the default hash function and, for an invalid count, the default replica
\* count installed, registers the given nodes, and a Get that follows on a
\* non-empty node list returns a node without error.
C11_ResetAllDefaults ==
    [][ lastOp'.op = "ResetAll" =>
          \A r \in ReplicasArgs, list \in DistinctArgLists :
              (ResetAllCall(r, NilHash, list) /\ lastOp'.err # ErrRingFull) =>
                  /\ lastOp'.err = ErrNone
                  /\ HashFunc' = crc32ChecksumIEEE
                  /\ replicas' = ReplicasOrDefault(r)
                  /\ Registered' = Range(list)
                  /\ list # << >> =>
                        \A key \in Keys : /\ GetAfter(key).err = ErrNone
                                          /\ GetAfter(key).ret \in Range(list)
      ]_vars

\* C12: Get returns the empty-ring error exactly when no node is
\* registered; when a node is registered IsEmpty is false and Get returns
\* a node without error.
C12_EmptyIffNoNodes ==
    /\ \A key \in Keys : Get(Ring, key).err = ErrRingEmpty <=> Registered = {}
    /\ Registered # {} =>
          /\ ~IsEmpty(Ring)
          /\ \A key \in Keys : /\ Get(Ring, key).err = ErrNone
                               /\ Get(Ring, key).ret \in Nodes

\* the rings a sequence of successful Add calls builds from a fresh ring
\* with the nodes S: one call with all of them or one call per node
AddBuilt(S) ==
    UNION { {AddAll(Fresh, list), AddEach(Fresh, list)} : list \in Perms(S) }

\* C13: on a ring built from a fresh one by successful Add calls only,
\* IsEmpty is false once a node is registered and every registered node
\* owns at least one position (so some key hash resolves to it).
C13_AddedNodesOwnPositions ==
    (/\ lastOp.op = "Add" /\ lastOp.err = ErrNone
     /\ Registered # {}
     /\ Ring \in AddBuilt(Registered)) =>
        /\ ~IsEmpty(Ring)
        /\ \A n \in Registered :
              \E p \in Positions :
                  /\ vnodeToNode[p] = n
                  /\ Get(Ring, <<p>>).err = ErrNone

\* the positions node n owns on ring m
OwnedIn(m, n) == {p \in DOMAIN m.vnodeToNode : m.vnodeToNode[p] = n}

\* list without the repetitions of an identifier
RECURSIVE Dedup(_)
Dedup(list) ==
    IF list = << >> THEN << >>
    ELSE LET other(n) == n # Head(list)
         IN  <<Head(list)>> \o Dedup(SelectSeq(Tail(list), other))

\* C14: a successful Add leaves every node that was registered before with
\* the positions it had; when all its arguments were registered the whole
\* ring is left as it was; and an identifier repeated in the argument list
\* counts once (the ring is the one Add of the list without repetitions
\* leaves).
C14_AddIdempotent ==
    [][ (lastOp'.op = "Add" /\ lastOp'.err = ErrNone) =>
          /\ \A n \in Registered :
                /\ n \in Registered'
                /\ OwnedIn(Ring', n) = OwnedIn(Ring, n)
                /\ variant = 2 => nodeToVnode'[n] = nodeToVnode[n]
          /\ lastOp'.args \subseteq Registered => UNCHANGED ringVars
          /\ \A list \in ArgLists :
                AddCall(list) => Ring' = AddAll(Ring, Dedup(list))
      ]_vars

\* an Add of registered nodes only has returned without error on a ring of
\* two nodes, one of them on a position the collision policy chose
C14_Witness ==
    /\ lastOp.op = "Add" /\ lastOp.err = ErrNone /\ ~lastOp.changed
    /\ lastOp.args # {} /\ lastOp.args \subseteq Registered
    /\ Cardinality(Owners) >= 2
    /\ \E p \in Positions :
          /\ vnodeToNode[p] \in lastOp.args
          /\ \A ui \in 0..(replicas - 1) :
                vhash32([Ring EXCEPT !.vnodeToNode = EmptyMap], vnodeToNode[p], ui) # p

\* the ring after Remove of the nodes of dels (one call per node in
\* variant 1, one call in variant 2)
RECURSIVE RemoveEach(_, _)
RemoveEach(m, dels) ==
    IF variant = 2 THEN RemoveV2(m, dels, "asc").ring
    ELSE IF dels = << >> THEN m
    ELSE RemoveEach(RemoveV1(m, Head(dels), "asc").ring, Tail(dels))

\* the ring after Remove of dels followed by one Add of adds
RemoveThenAdd(m, dels, adds) == AddAll(RemoveEach(m, dels), adds)

\* C15: a Reset(list) that returns no error leaves the nodes of list
\* registered and the position->node map that Remove of every registered
\* node outside list, followed by Add of the nodes of list that were not
\* registered (in the order of list), leaves.
C15_ResetIsRemoveThenAdd ==
    [][ (lastOp'.op = "Reset" /\ lastOp'.err = ErrNone) =>
          /\ Registered' = lastOp'.args
          /\ \A list \in ArgLists, order \in IterOrders :
                ResetCall(list, order) =>
                    \A dels \in Perms(Registered \ Range(list)) :
                        LET new(n) == n \notin Registered
                            m2 == RemoveThenAdd(Ring, dels, SelectSeq(list, new))
                        IN  /\ RegisteredIn(variant, m2) = Registered'
                            /\ m2.vnodeToNode = vnodeToNode'
                            /\ m2.vNodes = vNodes'
      ]_vars

\* C16: Remove deletes exactly the positions owned by the removed nodes
\* from the position->node map and from the position sequence, unregisters
\* them and leaves the positions and the ownership of every other node, the
\* replica count and the hash function as they were; a Remove of
\* identifiers that are not registered leaves the whole ring unchanged.
C16_RemoveDeletesExactly ==
    [][ lastOp'.op = "Remove" =>
          LET S    == lastOp'.args
              kept == {p \in Positions : vnodeToNode[p] \notin S}
          IN  /\ vnodeToNode' = [p \in kept |-> vnodeToNode[p]]
              /\ Range(vNodes') = kept
              /\ Len(vNodes') = Cardinality(kept)
              /\ Registered' = Registered \ S
              /\ \A n \in Registered \ S : OwnedIn(Ring', n) = OwnedIn(Ring, n)
              /\ variant = 2 =>
                    nodeToVnode' = [n \in Registered \ S |-> nodeToVnode[n]]
              /\ UNCHANGED <<HashFunc, replicas>>
              /\ S \cap Registered = {} => UNCHANGED ringVars
              /\ lastOp'.err = ErrNone
      ]_vars

\* a Remove of two nodes has left one node, with all its positions
C16_Witness ==
    /\ lastOp.op = "Remove" /\ lastOp.changed
    /\ Cardinality(lastOp.args) = 2
    /\ Cardinality(Registered) = 1
    /\ Cardinality(Positions) = replicas

\* New(r, hash) of the variant
New(r, hash) == IF variant = 1 THEN NewV1(r, hash) ELSE NewV2(r, hash)

\* C17: after a ResetAll(r, hash, list) that returns no error the ring
\* (registered nodes, positions, ownership, replica count, hash function)
\* is the ring New(r, hash) followed by Add(list) builds, whatever the ring
\* was before.
C17_ResetAllIsNewThenAdd ==
    [][ (lastOp'.op = "ResetAll" /\ lastOp'.err = ErrNone) =>
          \A r \in ReplicasArgs, hash \in HashArgs, list \in DistinctArgLists :
              ResetAllCall(r, hash, list) => Ring' = AddAll(New(r, hash), list)
      ]_vars

\* C18: Add, Reset and ResetAll return no error or ring-full and nothing
\* else, also on rings where the collision policy has dropped replicas.
C18_NoCollisionError ==
    lastOp.op \in {"Add", "Reset", "ResetAll"} =>
        lastOp.err \in {ErrNone, ErrRingFull}

\* C19: Add, Remove, Reset, Get and IsEmpty leave the replica count and
\* the hash function as they were, whether they return an error or not;
\* only ResetAll changes them.
C19_OnlyResetAllConfigures ==
    [][ lastOp'.op \in {"Add", "Remove", "Reset", "Get", "IsEmpty"} =>
            UNCHANGED <<HashFunc, replicas>> ]_vars

\* a Reset has changed the membership of a ring whose replica count and
\* hash function are not the defaults
C19_Witness ==
    /\ lastOp.op = "Reset" /\ lastOp.changed /\ lastOp.err = ErrNone
    /\ replicas # defaultReplicas
    /\ HashFunc \in UserHashFuncs
    /\ Positions # {}

\* C20: a Get or IsEmpty step changes nothing of the ring (nodes,
\* positions, ownership, slice, replica count, hash function), on the
\* empty ring as on any other, so that Get of every key returns after the
\* step what it returned before.
C20_ReadersDoNotMutate ==
    [][ lastOp'.op \in {"Get", "IsEmpty"} =>
          /\ UNCHANGED ringVars
          /\ \A key \in Keys : GetAfter(key) = GetBefore(key)
          /\ lastOp'.op = "Get" =>
                \E key \in Keys : /\ lastOp'.ret = GetAfter(key).ret
                                  /\ lastOp'.err = GetAfter(key).err
      ]_vars

\* a Get has returned a node on a ring of three registered nodes
C20_Witness ==
    /\ lastOp.op = "Get" /\ lastOp.err = ErrNone
    /\ lastOp.ret \in Registered
    /\ Cardinality(Registered) = 3
    /\ Len(vNodes) >= 3

\* goroutine p is outside every call and holds no lock
Returned21(p) == pc[p] = "idle" /\ rwmutex.w # p /\ p \notin rwmutex.r

\* C21: under fair scheduling every call a goroutine has started ends with
\* the goroutine idle again and the lock released, whatever the other
\* goroutine calls and on every path of the call (ring-full and empty-ring
\* included).
C21_EveryCallReturns ==
    \A p \in Procs : (pc[p] # "idle") ~> Returned21(p)

\* an Add has returned ring-full and released the lock while the other
\* goroutine waits in RLock for a Get
C21_Witness ==
    /\ lastOp.op = "Add" /\ lastOp.err = ErrRingFull
    /\ rwmutex = [w |-> 0, r |-> {}]
    /\ \E p, q \in Procs :
          /\ pc[p] = "idle"
          /\ pc[q] = "rlock" /\ call[q].op = "Get"

\* the three candidate positions of replica ui of node n under hash
\* function hf and replica count r: the computed one, the rehash of it
\* plus one, the rehash of that plus one, all in segment ui
Candidates(hf, r, n, ui) ==
    LET W    == MaxUint32 \div r
        base == ui * W
        c1   == base + (((Hash(hf, combKey(n, ui)) * prime) % Word) % W)
        c2   == base + ((((c1 + 1) * prime) % Word) % W)
        c3   == base + ((((c2 + 1) * prime) % Word) % W)
    IN  <<c1, c2, c3>>

\* the positions the collision policy gives node n on a ring whose
\* occupied positions are occ: per replica the first free candidate, none
\* when the three are occupied
PolicyPositions(hf, r, n, occ) ==
    { c[i] : c \in {Candidates(hf, r, n, ui) : ui \in 0..(r - 1)}, i \in 1..3 }
    \cap
    { q \in 0..MaxUint32 :
        \E ui \in 0..(r - 1) :
            LET c == Candidates(hf, r, n, ui)
            IN  \E i \in 1..3 : /\ c[i] = q
                                /\ q \notin occ
                                /\ \A j \in 1..(i - 1) : c[j] \in occ /\ c[j] # q }

\* C22: an Add or Reset step leaves every position of a node that stays
\* registered on the ring with its owner;
\* a node inserted alone by an Add owns, per replica, the first of its three
\* candidates that was free, and nothing for a replica whose three
\* candidates were occupied.
C22_CollisionPolicy ==
    [][ (lastOp'.op \in {"Add", "Reset", "ResetAll"} /\ lastOp'.err = ErrNone) =>
          /\ \A p \in Positions :
                (lastOp'.op # "ResetAll" /\ vnodeToNode[p] \in Registered') =>
                    p \in Positions' /\ vnodeToNode'[p] = vnodeToNode[p]
          /\ \A n \in Nodes :
                (lastOp'.op = "Add" /\ Registered' \ Registered = {n}) =>
                    OwnedIn(Ring', n) = PolicyPositions(HashFunc, replicas, n, Positions)
      ]_vars

\* an Add has inserted a node of which one replica went to its third
\* candidate, the first two being occupied by other nodes
C22_Witness ==
    /\ lastOp.op = "Add" /\ lastOp.err = ErrNone /\ lastOp.changed
    /\ \E n \in lastOp.args \cap Registered :
          LET others == Positions \ OwnedIn(Ring, n)
          IN  \E ui \in 0..(replicas - 1) :
                  LET c == Candidates(HashFunc, replicas, n, ui)
                  IN  /\ c[3] \in OwnedIn(Ring, n)
                      /\ c[1] \in others /\ c[2] \in others

\* an Add has inserted a node alone and dropped one of its replicas, the
\* three candidates being occupied by other nodes
C22_WitnessDropped ==
    /\ lastOp.op = "Add" /\ lastOp.err = ErrNone /\ lastOp.changed
    /\ \E n \in lastOp.args \cap Registered :
          LET others == Positions \ OwnedIn(Ring, n)
          IN  \E ui \in 0..(replicas - 1) :
                  LET c == Candidates(HashFunc, replicas, n, ui)
                  IN  \A i \in 1..3 : c[i] \in others

\* segment i of a ring of r replicas: [i*W, (i+1)*W), W = floor(MaxUint32 / r)
Segment(r, i) == { q \in 0..MaxUint32 : /\ i * (MaxUint32 \div r) <= q
                                        /\ q < (i + 1) * (MaxUint32 \div r) }

\* C23: in every reachable state the position add would insert for replica
\* i of any identifier lies in segment i, every node owns at most one
\* position per segment, none outside the segments and at most `replicas`
\* in total; and a node inserted alone by an Add while none of its
\* first-choice positions was occupied owns exactly `replicas` positions.
C23_SegmentPlacement ==
    /\ [](/\ HashFunc # NilHash =>
                \A n \in Nodes, i \in 0..(replicas - 1) :
                    \/ vhash32(Ring, n, i) = NoPos
                    \/ vhash32(Ring, n, i) \in Segment(replicas, i)
          /\ \A n \in Nodes :
                /\ \A i \in 0..(replicas - 1) :
                      Cardinality(OwnedIn(Ring, n) \cap Segment(replicas, i)) <= 1
                /\ OwnedIn(Ring, n) \subseteq
                      UNION {Segment(replicas, i) : i \in 0..(replicas - 1)}
                /\ Cardinality(OwnedIn(Ring, n)) <= replicas)
    /\ [][ (lastOp'.op = "Add" /\ lastOp'.err = ErrNone /\ lastOp'.changed) =>
              \A n \in Registered' \ Registered :
                  ( /\ Registered' \ Registered = {n}
                    /\ \A i \in 0..(replicas - 1) :
                          Candidates(HashFunc, replicas, n, i)[1] \notin Positions )
                  => Cardinality(OwnedIn(Ring', n)) = replicas
       ]_vars

\* an Add has inserted a node that owns `replicas` positions, one of them a
\* rehashed position in a segment other than the first
C23_Witness ==
    /\ lastOp.op = "Add" /\ lastOp.err = ErrNone /\ lastOp.changed
    /\ replicas > 1
    /\ \E n \in lastOp.args \cap Registered :
          /\ Cardinality(OwnedIn(Ring, n)) = replicas
          /\ \E i \in 1..(replicas - 1) :
                LET c == Candidates(HashFunc, replicas, n, i)
                IN  /\ c[1] \in Positions \ OwnedIn(Ring, n)
                    /\ c[1] # c[2]
                    /\ c[2] \in OwnedIn(Ring, n)

\* C24: after every public operation the owner of every position is a
\* registered node, and in the variant that keeps the node -> positions
\* index each registered node's list holds, without repetition, exactly the
\* positions the position -> node map gives to that node, so that no
\* position is listed under two nodes.
C24_DualIndexConsistent ==
    /\ Owners \subseteq Registered
    /\ variant = 2 =>
          /\ \A n \in Registered :
                /\ Range(nodeToVnode[n]) = OwnedIn(Ring, n)
                /\ Len(nodeToVnode[n]) = Cardinality(Range(nodeToVnode[n]))
          /\ \A n, k \in Registered :
                n # k => Range(nodeToVnode[n]) \cap Range(nodeToVnode[k]) = {}
          /\ UNION {Range(nodeToVnode[n]) : n \in Registered} = Positions

\* a Remove has taken a node off a ring that keeps both indexes, and two
\* nodes with positions remain, one of them with a dropped replica
C24_Witness ==
    /\ variant = 2
    /\ lastOp.op = "Remove" /\ lastOp.err = ErrNone /\ lastOp.changed
    /\ \E n, k \in Registered :
          /\ n # k
          /\ nodeToVnode[n] # << >> /\ nodeToVnode[k] # << >>
          /\ Len(nodeToVnode[k]) < replicas

\* the least replica count New and ResetAll store as given
MinReplicas(v) == IF v = 1 THEN 1 ELSE miniReplicas

\* ResetAll on ring m of variant v
ResetAllOf(v, m, r, hash, list) ==
    IF v = 1 THEN ResetAllV1(m, r, hash, list) ELSE ResetAllV2(m, r, hash, list)

AddOf(v, m, list) == IF v = 1 THEN AddV1(m, list) ELSE AddV2(m, list)

\* C26: in every reachable state an Add of identifiers, none repeated,
\* returns ring-full exactly when the positions on the ring plus `replicas`
\* for each argument that is not registered exceed the ceiling; in
\* particular an Add whose arguments are all registered is not rejected.
C26_RingFullIffOverCeiling ==
    \A list \in DistinctArgLists :
        AddOf(variant, Ring, list).err = ErrRingFull
        <=> Cardinality(Positions)
              + replicas * Cardinality(Range(list) \ Registered) > limitVNodes

\* Remove(n) on ring m of variant v, the map iterated in the given order
RemoveOf(v, m, n, order) ==
    IF v = 1 THEN RemoveV1(m, n, order) ELSE RemoveV2(m, <<n>>, order)

\* C27: in every reachable state, for every identifier n that is not
\* registered, an Add(n) that returns no error followed by Remove(n) leaves
\* the registered nodes, the positions and the owner of every position as
\* they were before the Add.
C27_AddRemoveRoundTrip ==
    \A n \in Nodes \ Registered, order \in IterOrders :
        LET added == AddOf(variant, Ring, <<n>>)
            back  == RemoveOf(variant, added.ring, n, order).ring
        IN  added.err = ErrNone =>
                /\ n \in RegisteredIn(variant, added.ring)
                /\ RegisteredIn(variant, back) = Registered
                /\ DOMAIN back.vnodeToNode = Positions
                /\ \A p \in Positions : back.vnodeToNode[p] = vnodeToNode[p]

\* a Remove(n) has undone an Add(n): n is off the ring, other nodes hold
\* positions, and adding n again meets occupied first-choice positions and
\* still gives n a position
C27_Witness ==
    /\ lastOp.op = "Remove" /\ lastOp.err = ErrNone /\ lastOp.changed
    /\ Positions # {}
    /\ \E n \in lastOp.args \ Registered :
          LET added == AddOf(variant, Ring, <<n>>)
          IN  /\ added.err = ErrNone
              /\ OwnedIn(added.ring, n) # {}
              /\ \E i \in 0..(replicas - 1) :
                    Candidates(HashFunc, replicas, n, i)[1] \in Positions

====
